---- MODULE Spec2Model ----
(***************************************************************************)
(* DreamVillaBot (src/main.py): the user_preferences table of              *)
(* DatabaseManager, the /villa command and the inline-button handler of    *)
(* VillaDesigner, and the two external calls of ApiClient that the         *)
(* action:generate pipeline awaits.                                        *)
(***************************************************************************)
EXTENDS Integers, Sequences, FiniteSets, TLC

\* ------------------------------------------------------------------ bounds
NumUsers == 2
MaxEvents == 2

Users == 1..NumUsers

\* ------------------------------------------------------- program constants
PreferenceFields == {"budget", "location", "style", "camera_angle"}

\* The button payloads the keyboards of handle_button_callback carry.
BudgetTokens == {"100k-200k", "200k-300k", "300k-500k", "500k-750k", "750k-1m", "1m-plus"}
CameraTokens == {"orbit", "top-down", "approach", "flyover", "parallax"}

\* SQL NULL in the current_step column.
NULL == "<NULL>"

\* Column defaults of CREATE TABLE user_preferences.
DefaultRow ==
    [budget |-> "300k-500k", location |-> "seaside", style |-> "modern",
     camera_angle |-> "orbit", current_step |-> NULL]

\* ------------------------------------------------------------------ inputs
\* Payloads of the events the model feeds in: for each verb some payloads the
\* keyboards offer and one they do not.
EditValues == {"budget", "location", "style", "camera_angle", "frobnicate"}
ActionValues == {"home", "generate", "frobnicate"}
FieldValues(field) ==
    CASE field = "budget" -> {"1m-plus", "10k"}
      [] field = "location" -> {"jungle"}
      [] field = "style" -> {"rustic"}
      [] field = "camera_angle" -> {"parallax", "selfie"}
\* A verb that CallbackQueryHandler's pattern does not match.
UnmatchedVerbs == {"frobnicate"}

VARIABLES
    user_preferences,   \* the table: a function from the user_ids that have a row to the row
    perplexity_client,  \* ApiClient.perplexity_client is set (a credential is configured)
    concurrent_updates, \* the Application's concurrent_updates setting
    pc,                 \* per user: where the in-flight handle_button_callback is suspended
    locals,             \* per user: prompt, enhanced_prompt, title of the in-flight pipeline
    trace,              \* per user: the UI primitives, the ApiClient calls and their returns, in
                        \* order, of the user's action:generate if it is in flight, else of
                        \* the user's handling if it was the latest to take a step
    last,               \* the step just taken: which handler ran or resumed, for which event,
                        \* and the user's stored current_step when it began
    nevents             \* number of events dispatched so far

vars == <<user_preferences, perplexity_client, concurrent_updates, pc, locals, trace, last, nevents>>

\* ------------------------------------------------------- DatabaseManager
HasRow(db, user_id) == user_id \in DOMAIN db

\* A read whose literal defaults have drifted from the column defaults.
get_user_preferences_drifted(db, user_id) ==
    IF ~HasRow(db, user_id)
    THEN [budget |-> "200k-300k", location |-> "seaside", style |-> "modern",
          camera_angle |-> "orbit"]
    ELSE [budget |-> db[user_id].budget, location |-> db[user_id].location,
          style |-> db[user_id].style, camera_angle |-> db[user_id].camera_angle]

\* get_user_preferences: the four columns of the row, or the literal defaults on a miss.
get_user_preferences(db, user_id) ==
    IF ~HasRow(db, user_id)
    THEN [budget |-> "300k-500k", location |-> "seaside", style |-> "modern",
          camera_angle |-> "orbit"]
    ELSE [budget |-> db[user_id].budget, location |-> db[user_id].location,
          style |-> db[user_id].style, camera_angle |-> db[user_id].camera_angle]

\* INSERT INTO user_preferences (user_id, column) VALUES (?, ?): the other columns
\* take their defaults.
InsertRow(db, user_id, column, value) ==
    [u \in DOMAIN db \cup {user_id} |->
        IF u = user_id THEN [DefaultRow EXCEPT ![column] = value] ELSE db[u]]

\* UPDATE user_preferences SET column = ? WHERE user_id = ?
UpdateRow(db, user_id, column, value) ==
    [db EXCEPT ![user_id] = [@ EXCEPT ![column] = value]]

\* A write that replaces the whole row (INSERT OR REPLACE) instead of one column.
update_user_preference_replace(db, user_id, preference_type, value) ==
    InsertRow(db, user_id, preference_type, value)

\* update_user_preference: UPDATE, and INSERT when no row was affected.
update_user_preference(db, user_id, preference_type, value) ==
    IF HasRow(db, user_id)
    THEN UpdateRow(db, user_id, preference_type, value)
    ELSE InsertRow(db, user_id, preference_type, value)

\* A step write that is the UPDATE alone.
update_user_step_no_insert(db, user_id, step) ==
    IF HasRow(db, user_id)
    THEN UpdateRow(db, user_id, "current_step", step)
    ELSE db

\* A step write that puts a fresh row in place of the user's (INSERT OR REPLACE).
update_user_step_replace(db, user_id, step) ==
    InsertRow(db, user_id, "current_step", step)

\* update_user_step: UPDATE current_step, and INSERT when no row was affected.
update_user_step(db, user_id, step) ==
    IF HasRow(db, user_id)
    THEN UpdateRow(db, user_id, "current_step", step)
    ELSE InsertRow(db, user_id, "current_step", step)

\* The stored current_step of a user (NULL in a row that never had a step written);
\* a user without a row has none.
current_step(db, user_id) ==
    IF HasRow(db, user_id) THEN db[user_id].current_step ELSE NULL

\* --------------------------------------------------------------- ApiClient
\* Python's None.
None == "<None>"

\* What the text-completion backend can do with one call: raise, or answer with a
\* content, here a sequence of tokens (a tag, a run of whitespace, or other text).
PROMPT_OPEN == "<stable_diffusion_prompt>"
PROMPT_CLOSE == "</stable_diffusion_prompt>"
TITLE_OPEN == "<title>"
TITLE_CLOSE == "</title>"
Whitespace == {" ", "\n"}

Contents ==
    { <<"<result>", PROMPT_OPEN, "\n", "airy glass villa", " ", PROMPT_CLOSE,
        TITLE_OPEN, " ", "Glass Castle", TITLE_CLOSE, "</result>">>,
      <<PROMPT_OPEN, "airy glass villa", PROMPT_CLOSE>>,
      <<TITLE_OPEN, "Glass Castle", TITLE_CLOSE>>,
      <<TITLE_CLOSE, PROMPT_OPEN, "stone villa", PROMPT_CLOSE,
        PROMPT_OPEN, "second thoughts", PROMPT_CLOSE, TITLE_OPEN>>,
      <<"I cannot help with that">> }

CompletionOutcomes ==
    {[raises |-> TRUE, content |-> <<>>]}
        \cup {[raises |-> FALSE, content |-> c] : c \in Contents}

\* re.search(r'<tag>(.*?)</tag>', content, re.DOTALL): the leftmost opening tag that
\* has a closing tag after it, and the text up to the first such closing tag.
Opens(content, open, close) ==
    {i \in 1..Len(content) :
        content[i] = open /\ \E j \in (i+1)..Len(content) : content[j] = close}

re_search(content, open, close) ==
    IF Opens(content, open, close) = {}
    THEN [matched |-> FALSE, group |-> <<>>]
    ELSE LET i == CHOOSE k \in Opens(content, open, close) :
                     \A m \in Opens(content, open, close) : k <= m
             j == CHOOSE k \in (i+1)..Len(content) :
                     /\ content[k] = close
                     /\ \A m \in (i+1)..(k-1) : content[m] # close
         IN [matched |-> TRUE, group |-> SubSeq(content, i+1, j-1)]

\* str.strip(): leading and trailing whitespace removed.
RECURSIVE lstrip(_)
lstrip(s) == IF s # <<>> /\ Head(s) \in Whitespace THEN lstrip(Tail(s)) ELSE s
RECURSIVE rstrip(_)
rstrip(s) ==
    IF s # <<>> /\ s[Len(s)] \in Whitespace THEN rstrip(SubSeq(s, 1, Len(s)-1)) ELSE s
strip(s) == rstrip(lstrip(s))

\* The text of a token sequence.
RECURSIVE Text(_)
Text(s) == IF s = <<>> THEN "" ELSE Head(s) \o Text(Tail(s))

\* The record of a call that was not made.
NoCompletion == [raises |-> FALSE, content |-> <<>>]

\* An enhance_prompt without the except clause.
enhance_prompt_uncaught(client, outcome) ==
    IF ~client THEN FALSE
    ELSE IF outcome.raises THEN TRUE
    ELSE FALSE

\* Whether enhance_prompt raises to its caller: without a client it returns before
\* any call; the call and the extraction are inside try, and except Exception logs
\* the error and falls through to the return.
enhance_prompt_raised(client, outcome) ==
    IF ~client THEN FALSE
    ELSE IF outcome.raises THEN FALSE
    ELSE FALSE

\* An extraction that gives up on both results when either tag pair is missing.
enhance_prompt_joint(client, outcome, prompt) ==
    LET fallback == [enhanced_prompt |-> prompt, title |-> "your dream villa"]
        prompt_match == re_search(outcome.content, PROMPT_OPEN, PROMPT_CLOSE)
        title_match == re_search(outcome.content, TITLE_OPEN, TITLE_CLOSE)
    IN IF ~client \/ outcome.raises THEN fallback
       ELSE IF ~(prompt_match.matched /\ title_match.matched) THEN fallback
       ELSE [enhanced_prompt |-> Text(strip(prompt_match.group)),
             title |-> Text(strip(title_match.group))]

\* enhance_prompt: the pair (enhanced_prompt, title).
enhance_prompt(client, outcome, prompt) ==
    LET fallback == [enhanced_prompt |-> prompt, title |-> "your dream villa"]
        prompt_match == re_search(outcome.content, PROMPT_OPEN, PROMPT_CLOSE)
        title_match == re_search(outcome.content, TITLE_OPEN, TITLE_CLOSE)
    IN IF ~client THEN fallback
       ELSE IF outcome.raises THEN fallback
       ELSE [enhanced_prompt |->
                IF prompt_match.matched THEN Text(strip(prompt_match.group)) ELSE prompt,
             title |->
                IF title_match.matched THEN Text(strip(title_match.group))
                ELSE "your dream villa"]

\* What the image backend can do with one POST: a transport error, or a status and a body.
ImageOutcomes ==
    { [raises |-> TRUE, status |-> 0, body |-> ""],
      [raises |-> FALSE, status |-> 200, body |-> "PNG-bytes"],
      [raises |-> FALSE, status |-> 200, body |-> ""],
      [raises |-> FALSE, status |-> 201, body |-> "PNG-bytes"],
      [raises |-> FALSE, status |-> 201, body |-> ""],
      [raises |-> FALSE, status |-> 500, body |-> "Internal Server Error"] }

\* A generate_image without the except clause.
generate_image_uncaught(outcome) == outcome.raises

\* Whether generate_image raises to its caller: the POST and the read are inside try,
\* and except Exception logs the error and returns None.
generate_image_raised(outcome) ==
    IF outcome.raises THEN FALSE
    ELSE FALSE

\* A generate_image that returns whatever body came back.
generate_image_any_status(outcome) ==
    IF outcome.raises THEN None
    ELSE outcome.body

\* generate_image: the body on status 200, None otherwise and on any exception.
generate_image(outcome) ==
    IF outcome.raises THEN None
    ELSE IF outcome.status = 200 THEN outcome.body
    ELSE None

\* The test `is not None`, which takes an empty body for an image.
Truthy_not_none(bytes) == bytes # None

\* A test that takes every result for an image.
Truthy_always(bytes) == TRUE

\* Truth value of an Optional[bytes]: None and b"" are false.
Truthy(bytes) == bytes # None /\ bytes # ""

\* ----------------------------------------------------------- VillaDesigner
\* A lookup that falls back to the adjective of the default budget.
budget_desc_premium(budget) ==
    CASE budget = "100k-200k" -> "budget-friendly"
      [] budget = "200k-300k" -> "standard"
      [] budget = "300k-500k" -> "premium"
      [] budget = "500k-750k" -> "luxury"
      [] budget = "750k-1m" -> "ultra-luxury"
      [] budget = "1m-plus" -> "elite high-end"
      [] OTHER -> "premium"

\* self.budget_desc.get(budget, "luxury")
budget_desc(budget) ==
    CASE budget = "100k-200k" -> "budget-friendly"
      [] budget = "200k-300k" -> "standard"
      [] budget = "300k-500k" -> "premium"
      [] budget = "500k-750k" -> "luxury"
      [] budget = "750k-1m" -> "ultra-luxury"
      [] budget = "1m-plus" -> "elite high-end"
      [] OTHER -> "luxury"

\* self.angle_desc.get(camera_angle, "aerial view of a")
angle_desc(camera_angle) ==
    CASE camera_angle = "orbit" -> "aerial 360-degree view around a"
      [] camera_angle = "top-down" -> "top-down aerial view of a"
      [] camera_angle = "approach" -> "front approach view of a"
      [] camera_angle = "flyover" -> "low flyover shot of a"
      [] camera_angle = "parallax" -> "parallax arc shot of a"
      [] OTHER -> "aerial view of a"

\* The base prompt of action:generate.
BasePrompt(prefs) ==
    "A photorealistic " \o angle_desc(prefs.camera_angle) \o " "
        \o budget_desc(prefs.budget) \o " " \o prefs.style
        \o " villa located at the " \o prefs.location
        \o ", luxury vacation home, professional photography, high detail, 4K"

\* The effect of each branch of handle_button_callback, and of start_generation, on
\* the table.

\* A /villa that initializes the row anew each time.
start_generation_reset(db, user_id) ==
    [u \in DOMAIN db \cup {user_id} |->
        IF u = user_id THEN [DefaultRow EXCEPT !.current_step = "home"] ELSE db[u]]

start_generation(db, user_id) == update_user_step(db, user_id, "home")

\* An edit branch that writes the tag of the first menu whatever the payload.
on_edit_budget_only(db, user_id, action_value) ==
    update_user_step(db, user_id, "editing_budget")

on_edit(db, user_id, action_value) ==
    update_user_step(db, user_id, "editing_" \o action_value)

on_action_home(db, user_id) == update_user_step(db, user_id, "home")

\* A field branch whose writes have no WHERE clause.
on_field_every_row(db, user_id, action_type, action_value) ==
    LET written == update_user_step(
                       update_user_preference(db, user_id, action_type, action_value),
                       user_id, "home")
    IN [v \in DOMAIN written |->
           [written[v] EXCEPT ![action_type] = action_value, !.current_step = "home"]]

\* A field branch that acts only from the menu of its own field.
on_field_from_own_menu(db, user_id, action_type, action_value) ==
    IF current_step(db, user_id) = "editing_" \o action_type
    THEN update_user_step(
             update_user_preference(db, user_id, action_type, action_value),
             user_id, "home")
    ELSE db

\* A field branch that writes the preference and leaves the step.
on_field_no_step(db, user_id, action_type, action_value) ==
    update_user_preference(db, user_id, action_type, action_value)

on_field(db, user_id, action_type, action_value) ==
    update_user_step(
        update_user_preference(db, user_id, action_type, action_value), user_id, "home")

\* The CallbackQueryHandler pattern "^(budget|location|style|camera_angle|edit|action):".
PatternVerbs == PreferenceFields \cup {"edit", "action"}

\* --------------------------------------------------------------- UI surface
\* (the emoji that opens the text is left out)
HomeText ==
    "*Dream Villa Designer*\n\nCustomize your villa parameters and click Generate when ready!"
FailureText == "Sorry, there was an error generating your villa. Please try again later."

Answer == [op |-> "answer"]
EditMessageText(text) == [op |-> "edit_message_text", text |-> text]
SendPhoto(photo, caption) == [op |-> "send_photo", photo |-> photo, caption |-> caption]

\* The two interim texts of the generate branch.
Interim1(prompt) == "Generating your dream villa...\n\n" \o prompt
Interim2(enhanced_prompt, title) == "Generating " \o title \o "...\n\n" \o enhanced_prompt

\* An exception that leaves the handler: the handling ends there.
Raised(where) == [op |-> "raised", where |-> where]

\* edit_message_text on a message that already shows this text, with no keyboard before
\* or after: the Bot API answers 400 "message is not modified", which the library raises
\* as BadRequest.  Neither interim edit of the generate branch passes a reply_markup and
\* neither is inside a try.
NotModified(shown, text) == shown = text

\* A second stage that hands the base prompt to generate_image.
AfterEnhance_base_prompt(prompt, enhanced_prompt, title) ==
    IF NotModified(Interim1(prompt), Interim2(enhanced_prompt, title))
    THEN <<Raised("edit_message_text")>>
    ELSE <<EditMessageText(Interim2(enhanced_prompt, title)),
           [op |-> "generate_image", prompt |-> prompt]>>

\* What the pipeline does once enhance_prompt has returned: the second interim
\* message, over the first one, and the call of generate_image on the enhanced prompt.
AfterEnhance(prompt, enhanced_prompt, title) ==
    IF NotModified(Interim1(prompt), Interim2(enhanced_prompt, title))
    THEN <<Raised("edit_message_text")>>
    ELSE <<EditMessageText(Interim2(enhanced_prompt, title)),
           [op |-> "generate_image", prompt |-> enhanced_prompt]>>

\* A last stage that says nothing when there is no image.
AfterGenerateImage_silent(result_image, enhanced_prompt, title) ==
    IF Truthy(result_image)
    THEN <<SendPhoto(result_image, title),
           EditMessageText("Here's " \o title \o "!\n\n" \o enhanced_prompt)>>
    ELSE <<>>

\* What the pipeline does once generate_image has returned: the image with the title
\* as caption and the summary, or the failure notice.
AfterGenerateImage(result_image, enhanced_prompt, title) ==
    IF Truthy(result_image)
    THEN <<SendPhoto(result_image, title),
           EditMessageText("Here's " \o title \o "!\n\n" \o enhanced_prompt)>>
    ELSE <<EditMessageText(FailureText)>>

\* show_home_screen: reads the preferences and renders them on the keyboard, editing
\* the message when called from a callback and replying otherwise.
show_home_screen(db, user_id, from_callback) ==
    [op |-> IF from_callback THEN "edit_message_text" ELSE "reply_text",
     text |-> HomeText,
     buttons |-> get_user_preferences(db, user_id)]

\* The choice menu of edit:<field>; none is rendered for any other payload.
EditMenu(action_value) ==
    CASE action_value = "budget" ->
            <<EditMessageText("What's your budget range for the villa?")>>
      [] action_value = "location" ->
            <<EditMessageText("Where would you like your villa to be located?")>>
      [] action_value = "style" ->
            <<EditMessageText("What architectural style would you prefer for your villa?")>>
      [] action_value = "camera_angle" ->
            <<EditMessageText("Which camera angle would you like for your villa shot?")>>
      [] OTHER -> <<>>

\* ------------------------------------------------------------------- state
\* A pipeline that reads the preferences again when it resumes.
resume_rereading(db, user_id, frame) ==
    LET prefs == get_user_preferences(db, user_id)
    IN [frame EXCEPT !.prefs = prefs, !.prompt = BasePrompt(prefs)]

\* The local variables a suspended handle_button_callback resumes with: those it
\* suspended with; nothing after line 474 reads the store, whatever it holds by then.
resume(db, user_id, frame) == frame

NoLocals ==
    [prefs |-> [budget |-> "", location |-> "", style |-> "", camera_angle |-> ""],
     prompt |-> "", enhanced_prompt |-> "", title |-> ""]

\* A step's description: the handler that ran or resumed, its event, and the
\* current_step the user had stored when the step began.
Step(kind, user, verb, value, from) ==
    [kind |-> kind, user |-> user, verb |-> verb, value |-> value, from |-> from]

InitWith(concurrent) ==
    /\ user_preferences = <<>>
    /\ perplexity_client \in BOOLEAN
    /\ concurrent_updates = concurrent
    /\ pc = [u \in Users |-> "idle"]
    /\ locals = [u \in Users |-> NoLocals]
    /\ trace = [u \in Users |-> <<>>]
    /\ last = Step("init", 0, "", "", NULL)
    /\ nevents = 0

\* Application.builder()...build() leaves concurrent_updates off: run_polling hands
\* the updates to the handlers one at a time, each awaited to its end.
Init == InitWith(FALSE)

\* The dispatcher can hand user's next update to a handler: with concurrent_updates
\* off only when no handling is in flight, with it on at any time, also while a
\* handling of the same user is suspended.
Dispatchable(user) ==
    /\ nevents < MaxEvents
    /\ concurrent_updates \/ \A v \in Users : pc[v] = "idle"

\* The traces once user's handling has invoked entries, on top of before: the traces of
\* the other handlings in flight are kept, those of the handlings that ended are dropped.
Traced(user, before, entries) ==
    [v \in Users |->
        IF v = user THEN before \o entries
        ELSE IF pc[v] = "idle" THEN <<>> ELSE trace[v]]

\* The dispatch of an update of user whose handling invokes entries before it ends
\* or suspends; while a pipeline of the same user is suspended the trace stays that of
\* the pipeline.
Dispatched(kind, user, verb, value, entries) ==
    /\ last' = Step(kind, user, verb, value, current_step(user_preferences, user))
    /\ trace' = IF pc[user] = "idle" THEN Traced(user, <<>>, entries)
                 ELSE Traced(user, trace[user], <<>>)
    /\ nevents' = nevents + 1
    /\ UNCHANGED <<perplexity_client, concurrent_updates>>

\* ----------------------------------------------------------------- actions
\* /villa: start_generation.
VillaCommand(user) ==
    /\ Dispatchable(user)
    /\ user_preferences' = start_generation(user_preferences, user)
    /\ Dispatched("command", user, "villa", "",
                  <<show_home_screen(user_preferences', user, FALSE)>>)
    /\ UNCHANGED <<pc, locals>>

\* A callback whose data the handler's pattern does not match: no handler runs.
UnmatchedCallback(user, verb, value) ==
    /\ Dispatchable(user)
    /\ verb \notin PatternVerbs
    /\ Dispatched("unmatched", user, verb, value, <<>>)
    /\ UNCHANGED <<user_preferences, pc, locals>>

\* handle_button_callback, action_type == 'edit'.
ButtonEdit(user, value) ==
    /\ Dispatchable(user)
    /\ user_preferences' = on_edit(user_preferences, user, value)
    /\ Dispatched("button", user, "edit", value, <<Answer>> \o EditMenu(value))
    /\ UNCHANGED <<pc, locals>>

\* handle_button_callback, action:home.
ButtonActionHome(user) ==
    /\ Dispatchable(user)
    /\ user_preferences' = on_action_home(user_preferences, user)
    /\ Dispatched("button", user, "action", "home",
                  <<Answer, show_home_screen(user_preferences', user, TRUE)>>)
    /\ UNCHANGED <<pc, locals>>

\* handle_button_callback, action:<anything but home and generate>: no branch is taken.
ButtonActionOther(user, value) ==
    /\ Dispatchable(user)
    /\ value \notin {"home", "generate"}
    /\ Dispatched("button", user, "action", value, <<Answer>>)
    /\ UNCHANGED <<user_preferences, pc, locals>>

\* handle_button_callback, action_type one of the four preference fields.
ButtonField(user, field, value) ==
    /\ Dispatchable(user)
    /\ field \in PreferenceFields
    /\ user_preferences' = on_field(user_preferences, user, field, value)
    /\ Dispatched("button", user, field, value,
                  <<Answer, show_home_screen(user_preferences', user, TRUE)>>)
    /\ UNCHANGED <<pc, locals>>

\* handle_button_callback, action:generate, up to the await of enhance_prompt (one
\* pipeline per user at a time: pc and locals hold one frame for each user).
ButtonActionGenerate(user) ==
    /\ Dispatchable(user)
    /\ pc[user] = "idle"
    /\ LET prefs == get_user_preferences(user_preferences, user)
           prompt == BasePrompt(prefs)
       IN /\ locals' = [locals EXCEPT ![user] =
                           [prefs |-> prefs, prompt |-> prompt,
                            enhanced_prompt |-> "", title |-> ""]]
          /\ Dispatched("button", user, "action", "generate",
                        <<Answer,
                          EditMessageText(Interim1(prompt)),
                          [op |-> "enhance_prompt", prompt |-> prompt]>>)
    /\ pc' = [pc EXCEPT ![user] = "enhance_prompt"]
    /\ UNCHANGED user_preferences

\* enhance_prompt returns (or raises): the second interim message, up to the await of
\* generate_image; the handling ends here when an exception leaves the handler.
EnhanceReturns(user, outcome) ==
    /\ pc[user] = "enhance_prompt"
    /\ LET frame == resume(user_preferences, user, locals[user])
           r == enhance_prompt(perplexity_client, outcome, frame.prompt)
           returned == [op |-> "enhance_prompt_returned",
                        called |-> perplexity_client,
                        outcome |-> IF perplexity_client THEN outcome ELSE NoCompletion,
                        enhanced_prompt |-> r.enhanced_prompt, title |-> r.title]
           entries == IF enhance_prompt_raised(perplexity_client, outcome)
                      THEN <<Raised("enhance_prompt")>>
                      ELSE <<returned>> \o
                           AfterEnhance(frame.prompt, r.enhanced_prompt, r.title)
           raised == entries[Len(entries)].op = "raised"
       IN /\ trace' = Traced(user, trace[user], entries)
          /\ locals' = [locals EXCEPT ![user] =
                           IF raised THEN NoLocals
                           ELSE [frame EXCEPT !.enhanced_prompt = r.enhanced_prompt,
                                              !.title = r.title]]
          /\ pc' = [pc EXCEPT ![user] = IF raised THEN "idle" ELSE "generate_image"]
          /\ last' = Step(IF raised THEN "handler_raised" ELSE "enhance_returned",
                          user, "action", "generate",
                          current_step(user_preferences, user))
    /\ UNCHANGED <<user_preferences, perplexity_client, concurrent_updates, nevents>>

\* generate_image returns (or raises): the image and the summary, or the failure
\* notice; the handler ends.
GenerateImageReturns(user, outcome) ==
    /\ pc[user] = "generate_image"
    /\ LET frame == resume(user_preferences, user, locals[user])
           result_image == generate_image(outcome)
           returned == [op |-> "generate_image_returned", outcome |-> outcome,
                        result |-> result_image]
           entries == IF generate_image_raised(outcome)
                      THEN <<Raised("generate_image")>>
                      ELSE <<returned>> \o
                           AfterGenerateImage(result_image, frame.enhanced_prompt,
                                              frame.title)
           raised == entries[Len(entries)].op = "raised"
       IN /\ trace' = Traced(user, trace[user], entries)
          /\ last' = Step(IF raised THEN "handler_raised" ELSE "generate_image_returned",
                          user, "action", "generate",
                          current_step(user_preferences, user))
    /\ locals' = [locals EXCEPT ![user] = NoLocals]
    /\ pc' = [pc EXCEPT ![user] = "idle"]
    /\ UNCHANGED <<user_preferences, perplexity_client, concurrent_updates, nevents>>

Next ==
    \/ \E u \in Users : VillaCommand(u)
    \/ \E u \in Users, verb \in UnmatchedVerbs : UnmatchedCallback(u, verb, "x")
    \/ \E u \in Users, v \in EditValues : ButtonEdit(u, v)
    \/ \E u \in Users : ButtonActionHome(u)
    \/ \E u \in Users, v \in ActionValues : ButtonActionOther(u, v)
    \/ \E u \in Users, f \in PreferenceFields : \E v \in FieldValues(f) : ButtonField(u, f, v)
    \/ \E u \in Users : ButtonActionGenerate(u)
    \/ \E u \in Users, o \in CompletionOutcomes : EnhanceReturns(u, o)
    \/ \E u \in Users, o \in ImageOutcomes : GenerateImageReturns(u, o)

Spec == Init /\ [][Next]_vars

\* The same handlers under a dispatcher that may also have been built with
\* concurrent_updates on: an update of one user is then handed to its handler while the
\* handling of another user's update is suspended at an await, in every order.  The
\* behaviours of Spec are among these.
InitAnyDispatcher == InitWith(FALSE) \/ InitWith(TRUE)
SpecConcurrent == InitAnyDispatcher /\ [][Next]_vars

\* Spec with external calls that all come back: a pending enhance_prompt returns or
\* raises, and so does a pending generate_image.
CallsReturn ==
    \A u \in Users :
        /\ WF_vars(\E o \in CompletionOutcomes : EnhanceReturns(u, o))
        /\ WF_vars(\E o \in ImageOutcomes : GenerateImageReturns(u, o))
SpecFair == Spec /\ CallsReturn

\* ================================================================== claims
Prefs(user) == get_user_preferences(user_preferences, user)
CurrentStep(user) == current_step(user_preferences, user)
LegalSteps ==
    {"home", "editing_budget", "editing_location", "editing_style", "editing_camera_angle"}
DefaultPrefs ==
    [budget |-> "300k-500k", location |-> "seaside", style |-> "modern",
     camera_angle |-> "orbit"]

\* The step just taken dispatched a button event (last' says whose and which).
ButtonHandled == last'.kind = "button" /\ nevents' = nevents + 1

\* C1: when the handling of action:generate completes, the user's current_step is
\* "home", whatever it was before and whether or not an image was produced.
C1_GenerateEndsAtHome ==
    last.kind = "generate_image_returned" => CurrentStep(last.user) = "home"

\* C2: every user's current_step is absent or one of the five legal tags.
C2_StepIsLegal ==
    \A u \in Users : CurrentStep(u) \in LegalSteps \cup {NULL}

\* C3: every stored budget is one of the six range tokens and every stored
\* camera_angle one of the five shot-type tokens.
C3_StoredTokensEnumerated ==
    \A u \in DOMAIN user_preferences :
        /\ user_preferences[u].budget \in BudgetTokens
        /\ user_preferences[u].camera_angle \in CameraTokens

\* The write, applied to the table as it is, changes the one field of what the read returns.
C4_WriteKeepsOtherFields ==
    \A u \in Users, f \in PreferenceFields : \A v \in FieldValues(f) :
        get_user_preferences(update_user_preference(user_preferences, u, f, v), u)
            = [Prefs(u) EXCEPT ![f] = v]

\* The home screen of the field handler shows the tuple before the write with the one
\* field changed.
C4_HandlerReadsWhatItWrote ==
    (ButtonHandled /\ last'.verb \in PreferenceFields) =>
        /\ Len(trace'[last'.user]) = 2
        /\ trace'[last'.user][2].buttons =
               [Prefs(last'.user) EXCEPT ![last'.verb] = last'.value]

\* C4: set_preference(user, field, value) followed by get_preferences(user) gives
\* value for that field and, for the other three, what get_preferences gave before
\* the write, whether the row existed or the write created it: this holds of the
\* write applied to every reachable table, and of the read the field handler makes
\* for its home screen after its write.
C4_SetThenGet == [](C4_WriteKeepsOtherFields) /\ [][C4_HandlerReadsWhatItWrote]_vars

\* A field write has just been handled for a user whose row held another
\* non-default field, which the read after the write still shows.
C4_Witness ==
    /\ last.kind = "button" /\ last.verb = "location" /\ last.value = "jungle"
    /\ HasRow(user_preferences, last.user)
    /\ trace[last.user][2].buttons =
           [budget |-> "10k", location |-> "jungle", style |-> "modern",
            camera_angle |-> "orbit"]

\* The step that handles action:generate for a user without a row.
C5_ReadOnMiss ==
    (/\ ButtonHandled /\ last'.verb = "action" /\ last'.value = "generate"
     /\ ~HasRow(user_preferences, last'.user)) =>
        /\ locals'[last'.user].prefs =
               [budget |-> "300k-500k", location |-> "seaside", style |-> "modern",
                camera_angle |-> "orbit"]
        /\ user_preferences' = user_preferences
        /\ ~HasRow(user_preferences', last'.user)

\* C5: for a user with no row, get_preferences returns exactly the default tuple and
\* leaves the table unchanged, with no row for that user after the read (the read
\* is the one action:generate makes).
C5_DefaultsWithoutRow == [][C5_ReadOnMiss]_vars

C5_Witness ==
    /\ last.kind = "button" /\ last.verb = "action" /\ last.value = "generate"
    /\ pc[last.user] = "enhance_prompt"
    /\ ~HasRow(user_preferences, last.user)
    /\ locals[last.user].prefs = DefaultPrefs

\* The step that handles <field>:<value> for a user at editing_<field>.
C6_EditValueStep ==
    (/\ ButtonHandled /\ last'.verb \in PreferenceFields
     /\ CurrentStep(last'.user) = "editing_" \o last'.verb) =>
        /\ get_user_preferences(user_preferences', last'.user) =
               [Prefs(last'.user) EXCEPT ![last'.verb] = last'.value]
        /\ current_step(user_preferences', last'.user) = "home"

\* C6: handling <field>:<value> for a user whose current_step is editing_<field> ends
\* with that field equal to value, the other three fields unchanged and current_step
\* "home".
C6_EditValueTransition == [][C6_EditValueStep]_vars

C6_Witness ==
    /\ last.kind = "button" /\ last.verb = "camera_angle" /\ last.value = "selfie"
    /\ last.from = "editing_camera_angle"
    /\ Prefs(last.user).camera_angle = "selfie"
    /\ CurrentStep(last.user) = "home"

\* The step that handles edit:<field> for one of the four fields.
C7_EditStep ==
    (ButtonHandled /\ last'.verb = "edit" /\ last'.value \in PreferenceFields) =>
        /\ current_step(user_preferences', last'.user) = "editing_" \o last'.value
        /\ get_user_preferences(user_preferences', last'.user) = Prefs(last'.user)

\* C7: from every current_step, absent included, handling edit:<field> for one of
\* the four fields sets current_step to editing_<field> and leaves the four
\* preference fields unchanged.
C7_EditTransition == [][C7_EditStep]_vars

C7_Witness ==
    /\ last.kind = "button" /\ last.verb = "edit" /\ last.value = "style"
    /\ last.from = "editing_budget"
    /\ CurrentStep(last.user) = "editing_style"
    /\ Prefs(last.user) = DefaultPrefs

\* The events that match no row of the transition table.
Unrecognized(step) ==
    \/ step.kind = "unmatched"
    \/ step.kind = "button" /\ step.verb = "edit" /\ step.value \notin PreferenceFields
    \/ step.kind = "button" /\ step.verb = "action" /\ step.value \notin {"home", "generate"}

C8_UnrecognizedStep ==
    (nevents' = nevents + 1 /\ Unrecognized(last')) =>
        \A u \in Users :
            /\ current_step(user_preferences', u) = CurrentStep(u)
            /\ get_user_preferences(user_preferences', u) = Prefs(u)

\* C8: handling an event that matches no row of the transition table (another verb,
\* edit with a field outside the four, action with a value other than home and
\* generate) leaves current_step and the four preference fields of every user
\* unchanged.
C8_UnrecognizedIsNoOp == [][C8_UnrecognizedStep]_vars

\* A step changes no user's preferences, or handles a field event and changes at most
\* those of its user.
C9_PrefsChangeOnlyOnFieldEvent ==
    \/ ButtonHandled /\ last'.verb \in PreferenceFields
           /\ \A u \in Users \ {last'.user} :
                  get_user_preferences(user_preferences', u) = Prefs(u)
    \/ \A u \in Users : get_user_preferences(user_preferences', u) = Prefs(u)

\* C9: a user's four preference fields change only in the step that handles a
\* <field>:<value> event of that user: /villa, edit:<field>, action:home and every
\* step of the action:generate pipeline leave them as they were.
C9_PipelineLeavesPrefs == [][C9_PrefsChangeOnlyOnFieldEvent]_vars

\* A pipeline has run to its end for a user with a non-default preference, which is
\* still stored.
C9_Witness ==
    /\ last.kind = "generate_image_returned"
    /\ Prefs(last.user) = [DefaultPrefs EXCEPT !.budget = "1m-plus"]

\* The fixed tables and the template of the generation pipeline.
BudgetAdjective ==
    [b \in BudgetTokens |->
        CASE b = "100k-200k" -> "budget-friendly"
          [] b = "200k-300k" -> "standard"
          [] b = "300k-500k" -> "premium"
          [] b = "500k-750k" -> "luxury"
          [] b = "750k-1m" -> "ultra-luxury"
          [] b = "1m-plus" -> "elite high-end"]
AnglePhrase ==
    [a \in CameraTokens |->
        CASE a = "orbit" -> "aerial 360-degree view around a"
          [] a = "top-down" -> "top-down aerial view of a"
          [] a = "approach" -> "front approach view of a"
          [] a = "flyover" -> "low flyover shot of a"
          [] a = "parallax" -> "parallax arc shot of a"]
TemplatePrompt(prefs) ==
    LET adjective ==
            IF prefs.budget \in BudgetTokens THEN BudgetAdjective[prefs.budget] ELSE "luxury"
        phrase ==
            IF prefs.camera_angle \in CameraTokens THEN AnglePhrase[prefs.camera_angle]
            ELSE "aerial view of a"
    IN "A photorealistic " \o phrase \o " " \o adjective \o " " \o prefs.style
           \o " villa located at the " \o prefs.location
           \o ", luxury vacation home, professional photography, high detail, 4K"
DefaultPrompt ==
    "A photorealistic aerial 360-degree view around a premium modern villa located at the seaside, luxury vacation home, professional photography, high detail, 4K"

\* C10: the base prompt action:generate shows is the template filled from the stored
\* tuple, with the adjective and the phrase of the fixed tables, "luxury" for an
\* unmapped budget and "aerial view of a" for an unmapped camera_angle; for the
\* default tuple it is the prompt of the aerial 360-degree view around a premium
\* modern villa located at the seaside.
C10_BasePrompt ==
    \A u \in Users :
        pc[u] = "enhance_prompt" =>
            /\ trace[u][2] =
                   EditMessageText("Generating your dream villa...\n\n"
                                       \o TemplatePrompt(Prefs(u)))
            /\ trace[u][3].prompt = TemplatePrompt(Prefs(u))
            /\ Prefs(u) = DefaultPrefs =>
                   trace[u][2].text = "Generating your dream villa...\n\n" \o DefaultPrompt

\* A base prompt is on show for a tuple with an unmapped camera_angle.
C10_Witness ==
    \E u \in Users :
        /\ pc[u] = "enhance_prompt"
        /\ Prefs(u).camera_angle = "selfie"
        /\ trace[u][3].prompt =
               "A photorealistic aerial view of a premium modern villa located at the seaside, luxury vacation home, professional photography, high detail, 4K"


\* ------------------------------------------------- the generate pipeline
\* The positions of a handling's trace that hold the given operation.
Positions(user, op) == {i \in 1..Len(trace[user]) : trace[user][i].op = op}

\* The trace is that of an action:generate handling.
IsGenerate(user) == Positions(user, "enhance_prompt") # {}

\* The handling of the user's action:generate is over.
GenerateOver(user) == IsGenerate(user) /\ pc[user] = "idle"

\* An image: a body that is there and is not empty.
IsImage(result) == result \notin {None, ""}

\* C11: in every handling of action:generate, send_photo is invoked if and only if
\* generate_image returned an image (a body, and not an empty one); when generate_image
\* returned None, the handling's last UI message is the failure notice and no photo
\* is sent.
C11_SendIffImage ==
    \A u \in Users :
        IsGenerate(u) =>
            LET sends == Positions(u, "send_photo")
                rets == Positions(u, "generate_image_returned")
            IN /\ (sends # {}) <=> (\E i \in rets : IsImage(trace[u][i].result))
               /\ \A i \in sends : \E j \in rets :
                      j < i /\ trace[u][i].photo = trace[u][j].result
               /\ \A j \in rets :
                      trace[u][j].result = None =>
                          /\ sends = {}
                          /\ GenerateOver(u)
                          /\ trace[u][Len(trace[u])] = EditMessageText(FailureText)

C11_Witness ==
    \E u \in Users :
        /\ GenerateOver(u)
        /\ \E j \in Positions(u, "generate_image_returned") : trace[u][j].result = None
        /\ trace[u][Len(trace[u])] = EditMessageText(FailureText)

\* The trace of a handling that went through every stage, rebuilt from what its two
\* calls returned.
LinearTrace(t) ==
    LET base == t[3].prompt
        e == t[4]
        g == t[7]
    IN <<Answer,
         EditMessageText("Generating your dream villa...\n\n" \o base),
         [op |-> "enhance_prompt", prompt |-> base],
         e,
         EditMessageText("Generating " \o e.title \o "...\n\n" \o e.enhanced_prompt),
         [op |-> "generate_image", prompt |-> e.enhanced_prompt],
         g>>
       \o IF IsImage(g.result)
          THEN <<SendPhoto(g.result, e.title),
                 EditMessageText("Here's " \o e.title \o "!\n\n" \o e.enhanced_prompt)>>
          ELSE <<EditMessageText(FailureText)>>

\* The handling ended on an exception.
EndedOnError(user) ==
    GenerateOver(user) /\ trace[user][Len(trace[user])].op = "raised"

\* A handling that did not end on an exception went through every stage once, in order.
C12_LinearUnlessError ==
    \A u \in Users :
        GenerateOver(u) /\ ~EndedOnError(u) =>
            /\ Len(trace[u]) >= 7
            /\ trace[u][4].op = "enhance_prompt_returned"
            /\ trace[u][7].op = "generate_image_returned"
            /\ trace[u] = LinearTrace(trace[u])

\* C12: every handling of action:generate performs, once each and in this order: the
\* interim update with the base prompt, one enhance_prompt call on the base prompt, the
\* interim update with the enhanced prompt and the title, one generate_image call on
\* exactly the enhanced prompt that enhance_prompt returned, then either send_photo with
\* the title as caption and the summary, or the failure notice; nothing is repeated.
C12_LinearOrder ==
    \A u \in Users :
        GenerateOver(u) =>
            /\ Len(trace[u]) >= 7
            /\ trace[u][4].op = "enhance_prompt_returned"
            /\ trace[u][7].op = "generate_image_returned"
            /\ trace[u] = LinearTrace(trace[u])

\* ------------------------------------------------------------ ApiClient
\* The record of enhance_prompt's return in a handling, when it has returned.
EnhanceReturned(user) == Positions(user, "enhance_prompt_returned")

\* C13: enhance_prompt never raises to its caller: when no Perplexity client is
\* configured, or when the completion call raises, enhance_prompt(prompt) returns
\* exactly (prompt, "your dream villa").
C13_EnhanceFallback ==
    \A u \in Users :
        /\ \A i \in Positions(u, "raised") : trace[u][i].where # "enhance_prompt"
        /\ pc[u] # "enhance_prompt" /\ IsGenerate(u) => EnhanceReturned(u) # {}
        /\ \A i \in EnhanceReturned(u) :
               LET e == trace[u][i]
                   call == trace[u][i - 1]
               IN /\ call.op = "enhance_prompt"
                  /\ (~e.called \/ e.outcome.raises) =>
                         /\ e.enhanced_prompt = call.prompt
                         /\ e.title = "your dream villa"

\* The completion call raised, and enhance_prompt returned.
C13_Witness ==
    \E u \in Users : \E i \in EnhanceReturned(u) :
        /\ trace[u][i].called
        /\ trace[u][i].outcome.raises
        /\ trace[u][i].enhanced_prompt = trace[u][i - 1].prompt

\* The tag pair is present: an opening tag with a closing tag somewhere after it.
HasSection(content, open, close) ==
    \E i, j \in 1..Len(content) : i < j /\ content[i] = open /\ content[j] = close

\* The content of the first section: from the leftmost opening tag that has a closing
\* tag after it, up to the nearest closing tag.
FirstSection(content, open, close) ==
    LET starts == {i \in 1..Len(content) :
                      content[i] = open /\ \E j \in (i+1)..Len(content) : content[j] = close}
        i == CHOOSE k \in starts : \A m \in starts : k <= m
        ends == {j \in (i+1)..Len(content) : content[j] = close}
        j == CHOOSE k \in ends : \A m \in ends : k <= m
    IN SubSeq(content, i + 1, j - 1)

\* A token sequence without its leading and trailing whitespace.
Trimmed(s) ==
    LET solid == {i \in 1..Len(s) : s[i] \notin Whitespace}
    IN IF solid = {} THEN <<>>
       ELSE SubSeq(s, CHOOSE a \in solid : \A m \in solid : a <= m,
                      CHOOSE b \in solid : \A m \in solid : b >= m)

\* The returns of enhance_prompt for an answer received without error.
Answered(user) ==
    {i \in EnhanceReturned(user) : trace[user][i].called /\ ~trace[user][i].outcome.raises}

\* C14: for an answer received without error the two results fall back independently:
\* enhanced_prompt is the content of the first <stable_diffusion_prompt> section if that
\* tag pair is present and the input otherwise; title is the content of the first
\* <title> section if that tag pair is present and "your dream villa" otherwise.
C14_SectionContent ==
    \A u \in Users : \A i \in Answered(u) :
        LET e == trace[u][i]
            c == e.outcome.content
        IN /\ e.enhanced_prompt =
                  IF HasSection(c, PROMPT_OPEN, PROMPT_CLOSE)
                  THEN Text(FirstSection(c, PROMPT_OPEN, PROMPT_CLOSE))
                  ELSE trace[u][i - 1].prompt
           /\ e.title =
                  IF HasSection(c, TITLE_OPEN, TITLE_CLOSE)
                  THEN Text(FirstSection(c, TITLE_OPEN, TITLE_CLOSE))
                  ELSE "your dream villa"

\* C14, amended: as above, with each section's content taken without its leading and
\* trailing whitespace.
C14_TrimmedSectionContent ==
    \A u \in Users : \A i \in Answered(u) :
        LET e == trace[u][i]
            c == e.outcome.content
        IN /\ e.enhanced_prompt =
                  IF HasSection(c, PROMPT_OPEN, PROMPT_CLOSE)
                  THEN Text(Trimmed(FirstSection(c, PROMPT_OPEN, PROMPT_CLOSE)))
                  ELSE trace[u][i - 1].prompt
           /\ e.title =
                  IF HasSection(c, TITLE_OPEN, TITLE_CLOSE)
                  THEN Text(Trimmed(FirstSection(c, TITLE_OPEN, TITLE_CLOSE)))
                  ELSE "your dream villa"

\* An answer with a prompt section and no title section: the prompt is taken from the
\* answer, the title is the default.
C14_Witness ==
    \E u \in Users : \E i \in Answered(u) :
        LET e == trace[u][i]
        IN /\ HasSection(e.outcome.content, PROMPT_OPEN, PROMPT_CLOSE)
           /\ ~HasSection(e.outcome.content, TITLE_OPEN, TITLE_CLOSE)
           /\ e.enhanced_prompt # trace[u][i - 1].prompt
           /\ e.title = "your dream villa"

\* The returns of generate_image in a handling.
ImageReturned(user) == Positions(user, "generate_image_returned")

\* HTTP's class of successful statuses.
SuccessStatus(status) == status \in 200..299

\* generate_image never raised, and has returned once the handling is past it.
GenerateImageNeverRaises(user) ==
    /\ \A i \in Positions(user, "raised") : trace[user][i].where # "generate_image"
    /\ \A i \in ImageReturned(user) : trace[user][i - 1].op = "generate_image"
    /\ \A i \in Positions(user, "generate_image") :
           pc[user] = "generate_image" \/ i + 1 \in ImageReturned(user)

\* C15: generate_image never raises to its caller: it returns the response body when
\* the backend answers with a success status, and None for every other status and for
\* every transport error.
C15_BodyOnSuccess ==
    \A u \in Users :
        /\ GenerateImageNeverRaises(u)
        /\ \A i \in ImageReturned(u) :
               LET o == trace[u][i].outcome
               IN trace[u][i].result =
                      IF ~o.raises /\ SuccessStatus(o.status) THEN o.body ELSE None

\* C15, amended: generate_image never raises to its caller: it returns the response
\* body when the backend answers with status 200, and None for every other status, the
\* other successful ones included, and for every transport error.
C15_BodyOn200 ==
    \A u \in Users :
        /\ GenerateImageNeverRaises(u)
        /\ \A i \in ImageReturned(u) :
               LET o == trace[u][i].outcome
               IN trace[u][i].result = IF ~o.raises /\ o.status = 200 THEN o.body ELSE None

\* The backend answered 500 with a body, and generate_image returned None.
C15_Witness ==
    \E u \in Users : \E i \in ImageReturned(u) :
        /\ ~trace[u][i].outcome.raises
        /\ trace[u][i].outcome.status = 500
        /\ trace[u][i].outcome.body # ""
        /\ trace[u][i].result = None

\* ------------------------------------------------------------ step writes
\* The step taken is the handling of a /villa command.
VillaHandled == last'.kind = "command" /\ nevents' = nevents + 1

C16_VillaStep ==
    VillaHandled =>
        LET u == last'.user
        IN /\ HasRow(user_preferences', u)
           /\ user_preferences'[u].current_step = "home"
           /\ \A f \in PreferenceFields :
                  user_preferences'[u][f] =
                      IF HasRow(user_preferences, u) THEN user_preferences[u][f]
                      ELSE DefaultPrefs[f]
           /\ \A v \in DOMAIN user_preferences' \ {u} :
                  HasRow(user_preferences, v) /\ user_preferences'[v] = user_preferences[v]

\* C16: after /villa is handled for a user, that user's current_step is "home"; for a
\* user without a row this creates the row with the four preference fields at their
\* defaults, and for a user with a row the four preference fields are unchanged.
C16_FlowEntry == [][C16_VillaStep]_vars

\* /villa was handled for a user whose row held a preference off its default.
C16_Witness ==
    /\ last.kind = "command"
    /\ last.from # NULL
    /\ Prefs(last.user) # DefaultPrefs
    /\ CurrentStep(last.user) = "home"

\* Store states to write the step in: the table as it is, with one more preference
\* written, and with another step written.
StoreStates(user) ==
    {user_preferences, update_user_step(user_preferences, user, "editing_style")}
        \cup {update_user_preference(user_preferences, user, f, v) :
                 f \in {"budget"}, v \in FieldValues("budget")}

\* The table with the user's step at "home": the user's row as it was in every other
\* column, or a row of defaults; every other row as it was.
HomeWritten(db, user) ==
    [v \in DOMAIN db \cup {user} |->
        IF v # user THEN db[v]
        ELSE IF user \in DOMAIN db THEN [db[user] EXCEPT !.current_step = "home"]
        ELSE [budget |-> DefaultPrefs.budget, location |-> DefaultPrefs.location,
              style |-> DefaultPrefs.style, camera_angle |-> DefaultPrefs.camera_angle,
              current_step |-> "home"]]

C17_SetStepHome ==
    \A u \in Users : \A db \in StoreStates(u) :
        LET once == update_user_step(db, u, "home")
            twice == update_user_step(once, u, "home")
        IN /\ twice = once
           /\ once = HomeWritten(db, u)
           /\ current_step(once, u) = "home"
           /\ get_user_preferences(once, u) = get_user_preferences(db, u)
           /\ DOMAIN once = DOMAIN db \cup {u}

C17_ActionHomeStep ==
    ButtonHandled /\ last'.verb = "action" /\ last'.value = "home" =>
        user_preferences' = HomeWritten(user_preferences, last'.user)

\* C17: update_user_step(user, "home") is idempotent: from every table (no row, or a row
\* with any step) writing twice gives the same table as writing once, with current_step
\* "home", the preference fields unchanged and one row for the user; action:home has
\* exactly this effect from every step.
C17_HomeIdempotent == [](C17_SetStepHome) /\ [][C17_ActionHomeStep]_vars

\* action:home was handled for a user whose step was "home" already.
C17_Witness ==
    /\ last.kind = "button" /\ last.verb = "action" /\ last.value = "home"
    /\ last.from = "home"
    /\ CurrentStep(last.user) = "home"

\* ------------------------------------------------------------- concurrency
\* The rows of the users other than the one whose handler took the step are as they
\* were, and none was created.
C18_OthersUntouched ==
    \A v \in Users :
        v # last'.user =>
            /\ HasRow(user_preferences', v) <=> HasRow(user_preferences, v)
            /\ HasRow(user_preferences, v) => user_preferences'[v] = user_preferences[v]

\* C18: under every interleaving of the handlers of different users at their awaits,
\* the handling of an event of user A never creates or changes the row (current_step or
\* any preference) of another user B: each handler touches the row keyed by its own
\* event's user id only.
C18_OwnRowOnly == [][C18_OthersUntouched]_vars

\* While A's action:generate waits for generate_image, B's field event was handled
\* and wrote B's row; A still has no row.
C18_Witness ==
    \E a, b \in Users :
        /\ a # b
        /\ pc[a] = "generate_image"
        /\ last.user = b /\ last.kind = "button" /\ last.verb \in PreferenceFields
        /\ Prefs(b) # DefaultPrefs
        /\ CurrentStep(b) = "home"
        /\ ~HasRow(user_preferences, a)

\* The user's action:generate is waiting for enhance_prompt or generate_image.
Waiting(user) == pc[user] \in {"enhance_prompt", "generate_image"}

\* C19: an external call that never returns blocks the in-flight event of the user who
\* triggered it only: while A's action:generate is waiting on the call, an event of
\* another user B is still handled to completion.
C19_OthersStillHandled ==
    \A a, b \in Users :
        a # b /\ Waiting(a) /\ pc[b] = "idle" /\ nevents < MaxEvents =>
            ENABLED ButtonActionHome(b)

\* ----------------------------------------------------------------- liveness
\* The terminal messages of a handling: the summary with the title and the enhanced
\* prompt that enhance_prompt returned, or the failure notice.
TerminalMessages(user) ==
    {i \in Positions(user, "edit_message_text") :
        \/ trace[user][i].text = FailureText
        \/ \E j \in EnhanceReturned(user) :
               trace[user][i].text =
                   "Here's " \o trace[user][j].title \o "!\n\n"
                       \o trace[user][j].enhanced_prompt}

\* The handling is over and ended with its one terminal message.
EndedWithTerminalMessage(user) ==
    /\ GenerateOver(user)
    /\ TerminalMessages(user) = {Len(trace[user])}

\* No handling ends on an exception, and one that is over has its terminal message.
C20_NoErrorEnding ==
    \A u \in Users :
        GenerateOver(u) => ~EndedOnError(u) /\ EndedWithTerminalMessage(u)

\* With calls that return, every handling ends.
C20_HandlingEnds == \A u \in Users : Waiting(u) ~> GenerateOver(u)

\* C20: every action:generate whose two external calls return ends, eventually, with
\* exactly one terminal UI message, the summary with title and enhanced prompt or the
\* failure notice; no failure of enhance_prompt or generate_image ends the handling
\* with an error instead.
C20_EndsWithTerminalMessage ==
    /\ [](C20_NoErrorEnding)
    /\ \A u \in Users : Waiting(u) ~> EndedWithTerminalMessage(u)

\* ------------------------------------------------- independence of the step
\* Values of current_step to start an event from: none written, home, the menu of a
\* field, and a tag no menu has.
AnySteps == {NULL, "home", "editing_budget", "editing_frobnicate"}

\* The table with the user's current_step set to step and nothing else changed; a user
\* without a row gets the row of defaults, which reads like no row.
WithStep(db, user, step) ==
    [v \in DOMAIN db \cup {user} |->
        IF v # user THEN db[v]
        ELSE IF user \in DOMAIN db THEN [db[user] EXCEPT !.current_step = step]
        ELSE [budget |-> DefaultPrefs.budget, location |-> DefaultPrefs.location,
              style |-> DefaultPrefs.style, camera_angle |-> DefaultPrefs.camera_angle,
              current_step |-> step]]

\* The event is one whose handler writes the store.
Writes(event) ==
    \/ event.kind = "command"
    \/ event.kind = "button" /\ event.verb = "edit"
    \/ event.kind = "button" /\ event.verb = "action" /\ event.value = "home"
    \/ event.kind = "button" /\ event.verb \in PreferenceFields

\* The table the handler of the event makes of a table.
Handle(db, event) ==
    CASE event.kind = "command" -> start_generation(db, event.user)
      [] event.kind = "button" /\ event.verb = "edit" ->
            on_edit(db, event.user, event.value)
      [] event.kind = "button" /\ event.verb = "action" /\ event.value = "home" ->
            on_action_home(db, event.user)
      [] event.kind = "button" /\ event.verb \in PreferenceFields ->
            on_field(db, event.user, event.verb, event.value)
      [] OTHER -> db

\* The step that handles an event does to the table what it would do had the user's
\* current_step been any other: the same preferences, and the same step if it writes.
C21_StepIndependent ==
    nevents' = nevents + 1 =>
        LET event == last'
            u == event.user
        IN /\ user_preferences' = Handle(user_preferences, event)
           /\ \A s \in AnySteps :
                  LET after == Handle(WithStep(user_preferences, u, s), event)
                  IN /\ get_user_preferences(after, u) =
                            get_user_preferences(user_preferences', u)
                     /\ Writes(event) =>
                            current_step(after, u) = current_step(user_preferences', u)
                     /\ ~Writes(event) => after = WithStep(user_preferences, u, s)

\* The step that handles <field>:<value>, whatever the current_step.
C21_FieldStep ==
    (ButtonHandled /\ last'.verb \in PreferenceFields) =>
        /\ get_user_preferences(user_preferences', last'.user) =
               [Prefs(last'.user) EXCEPT ![last'.verb] = last'.value]
        /\ current_step(user_preferences', last'.user) = "home"

\* C21: the effect of an event never depends on the stored current_step: from two tables
\* that differ in a user's current_step only, the same event leaves the same preferences
\* and the same written step; a <field>:<value> event writes the preference and sets
\* the step to "home" also when current_step is home, absent, or editing_<other field>.
C21_EffectIgnoresStep == [][C21_StepIndependent /\ C21_FieldStep]_vars

\* style:rustic was handled for a user who was in the budget menu.
C21_Witness ==
    /\ last.kind = "button" /\ last.verb = "style" /\ last.value = "rustic"
    /\ last.from = "editing_budget"
    /\ Prefs(last.user).style = "rustic"
    /\ CurrentStep(last.user) = "home"

\* ------------------------------------------------------------ the snapshot
\* The step resumes a suspended action:generate.
Resumed ==
    /\ nevents' = nevents
    /\ last'.kind \in {"enhance_returned", "generate_image_returned", "handler_raised"}

\* While an action:generate is suspended, what it passed to enhance_prompt and to
\* generate_image is made of the preferences it read, and of what enhance_prompt
\* returned.
C22_Snapshot ==
    \A u \in Users :
        pc[u] # "idle" =>
            LET base == TemplatePrompt(locals[u].prefs)
            IN /\ locals[u].prompt = base
               /\ trace[u][3] = [op |-> "enhance_prompt", prompt |-> base]
               /\ pc[u] = "generate_image" =>
                      /\ trace[u][4].op = "enhance_prompt_returned"
                      /\ trace[u][6] =
                             [op |-> "generate_image", prompt |-> trace[u][4].enhanced_prompt]
                      /\ ~HasSection(trace[u][4].outcome.content, PROMPT_OPEN, PROMPT_CLOSE)
                             => trace[u][6].prompt = base

\* The dispatch of action:generate reads the preferences and writes nothing; a step that
\* resumes the pipeline leaves the table alone; no step changes what a suspended pipeline
\* has read; and the pipeline's last step shows what its own calls returned.
C22_Step ==
    /\ (ButtonHandled /\ last'.verb = "action" /\ last'.value = "generate") =>
           /\ locals'[last'.user].prefs = Prefs(last'.user)
           /\ user_preferences' = user_preferences
    /\ Resumed => user_preferences' = user_preferences
    /\ \A u \in Users :
           pc[u] # "idle" /\ pc'[u] # "idle" =>
               /\ locals'[u].prefs = locals[u].prefs
               /\ locals'[u].prompt = locals[u].prompt
    /\ (Resumed /\ last'.kind = "generate_image_returned") =>
           LET u == last'.user
           IN /\ trace'[u] = LinearTrace(trace'[u])
              /\ trace'[u][3].prompt = TemplatePrompt(locals[u].prefs)

\* C22: an action:generate handling reads the preferences once, before it first waits
\* for an external call, and does not access the store afterwards: the base prompt and
\* the arguments of enhance_prompt and generate_image are fixed by that reading, so a
\* preference write handled while the pipeline is suspended changes the store and not
\* the prompt or the result of the generation in flight.
C22_SnapshotFixed == [](C22_Snapshot) /\ [][C22_Step]_vars

\* A pipeline waits for generate_image on the prompt of the preferences it read, while
\* the store holds other preferences, written after it read.
C22_Witness ==
    \E u \in Users :
        /\ pc[u] = "generate_image"
        /\ Prefs(u) # locals[u].prefs
        /\ trace[u][6].prompt = TemplatePrompt(locals[u].prefs)
        /\ trace[u][6].prompt # TemplatePrompt(Prefs(u))

\* ------------------------------------------------------------ empty bodies
\* The returns of generate_image for an answer with the given statuses and an empty body.
EmptyAnswers(user, statuses) ==
    {i \in ImageReturned(user) :
        /\ ~trace[user][i].outcome.raises
        /\ trace[user][i].outcome.status \in statuses
        /\ trace[user][i].outcome.body = ""}

\* For such an answer generate_image returned the empty body, not None, and the handling
\* showed the failure notice and sent no photo.
EmptyBodyIsFailure(user, statuses) ==
    \A i \in EmptyAnswers(user, statuses) :
        /\ trace[user][i].result = ""
        /\ trace[user][i].result # None
        /\ GenerateOver(user)
        /\ trace[user][Len(trace[user])] = EditMessageText(FailureText)
        /\ Positions(user, "send_photo") = {}

\* C23: when the image backend answers with a success status and an empty body,
\* generate_image returns the empty body (not None) and the handling treats it as no
\* image produced: the failure notice is shown and send_photo is not invoked.
C23_EmptyBodyOnSuccess == \A u \in Users : EmptyBodyIsFailure(u, 200..299)

\* C23, amended: the same for an answer with status 200 and an empty body; for another
\* success status generate_image returns None, and the handling ends the same way.
C23_EmptyBodyOn200 ==
    \A u \in Users :
        /\ EmptyBodyIsFailure(u, {200})
        /\ \A i \in EmptyAnswers(u, 200..299) :
               /\ trace[u][i].outcome.status # 200 => trace[u][i].result = None
               /\ GenerateOver(u)
               /\ trace[u][Len(trace[u])] = EditMessageText(FailureText)
               /\ Positions(u, "send_photo") = {}

\* The backend answered 200 with an empty body; the handling ended on the failure notice.
C23_Witness ==
    \E u \in Users :
        /\ EmptyAnswers(u, {200}) # {}
        /\ \E i \in EmptyAnswers(u, {200}) : trace[u][i].result = ""
        /\ trace[u][Len(trace[u])] = EditMessageText(FailureText)
====
